---- MODULE Spec2Model ----
(***************************************************************************)
(* Monkey Island bitmap font editor (monkey_island_font_editor.py).        *)
(*                                                                         *)
(* The model is the editor as an event-driven state machine: the fields of *)
(* PixelEditorCanvas and MonkeyIslandFontEditor, the bitmap files of the   *)
(* workspace, and one action per UI handler (thumbnail click, mouse press, *)
(* move, release, zoom buttons, colour buttons, save button).              *)
(*                                                                         *)
(* Library behaviour the handlers rest on is modelled as the libraries do  *)
(* it: a QImage of Format_Indexed8 is created with uninitialised pixels    *)
(* and an empty colour table, setColor grows the table, setPixel refuses   *)
(* an index outside the table; PIL keeps one byte per pixel for mode P and *)
(* convert('P') maps RGB onto the 6x6x6 browser palette.                   *)
(***************************************************************************)
EXTENDS Integers, Sequences, FiniteSets, TLC

VARIABLES
    image,                \* canvas.image: the QImage, or NoImage for None
    original_palette,     \* canvas.original_palette: flat r,g,b list; <<>> for None
    zoom_level,           \* canvas.zoom_level
    current_color_index,  \* canvas.current_color_index
    drawing,              \* canvas.drawing
    char_height,          \* canvas.char_height
    hover_y,              \* canvas.hover_y
    current_file,         \* window.current_file; "" for None
    current_index,        \* window.current_index; -1 for None
    info_label,           \* window.info_label, the figures it displays
    thumbnails,           \* widgets of window.thumbnail_layout, in order of addition
    disk,                 \* the bitmap files of the workspace, by file name
    pixelChanged,         \* pixelChanged signals emitted by the last handler
    dialog,               \* QMessageBox shown by the last handler, "" for none
    event,                \* the last UI event handled
    loaded,               \* the file as read by the last successful load_image
    edited,               \* whether a pixelChanged was emitted since that load
    budget,               \* events the run may still take: signals emitted,
                          \* files written, zoom clicks, thumbnail clicks
    pointers              \* positions the mouse events of the run are drawn from

vars == <<image, original_palette, zoom_level, current_color_index, drawing,
          char_height, hover_y, current_file, current_index, info_label,
          thumbnails, disk, pixelChanged, dialog, event, loaded, edited,
          budget, pointers>>

canvasVars == <<image, original_palette, zoom_level, current_color_index,
                drawing, char_height, hover_y>>
windowVars == <<current_file, current_index, info_label, thumbnails>>

-----------------------------------------------------------------------------
(* Bounds of the model *)

MaxPaints == 2       \* pixelChanged signals of a run of Spec
MaxSaves == 1        \* files written in a run of Spec
MaxZooms == 1        \* zoom clicks of a run of Spec or SpecStroke
MaxLoads == 2        \* thumbnail clicks of a run of Spec
StrokePaints == 3    \* pixelChanged signals of a run of SpecStroke
RepeatSaves == 2     \* files written in a run of SpecSave
MaxHeights == 1      \* set_char_height calls of a run of SpecHeight
Unlimited == 0 - 1   \* a budget that is never used up

-----------------------------------------------------------------------------
(* Values *)

Min(a, b) == IF a < b THEN a ELSE b
Max(a, b) == IF a > b THEN a ELSE b

\* A QImage colour table: its size, and its entries up to the last one set
\* from palette bytes; the entries after those are black.
EmptyTable == [size |-> 0, head |-> <<>>]
ColorAt(table, i) ==
    IF i < Len(table.head) THEN table.head[i + 1] ELSE <<0, 0, 0>>

\* self.image = None
NoImage == [valid |-> FALSE, width |-> 0, height |-> 0,
            colortable |-> EmptyTable, pix |-> <<>>]

Cells(w, h) == (0 .. w - 1) \X (0 .. h - 1)

\* Pointer positions the mouse events are drawn from (widget coordinates).
Pointers == {<<-7, -7>>, <<47, 47>>, <<52, 47>>, <<63, 47>>, <<103, 47>>}
FewPointers == {<<-7, -7>>, <<47, 47>>}
Buttons == {"Left", "Right"}

\* Values an uninitialised QImage byte may hold.
Garbage == {0, 9}

-----------------------------------------------------------------------------
(* The workspace *)

Paths == <<"char0001.bmp", "char0002.bmp", "char0003.bmp", "char0004.bmp">>
PathSet == {Paths[i] : i \in 1 .. Len(Paths)}

\* int(filename.replace("char", "")) of load_workspace
FileIndex(path) ==
    CASE path = "char0001.bmp" -> 1
      [] path = "char0002.bmp" -> 2
      [] path = "char0003.bmp" -> 3
      [] path = "char0004.bmp" -> 4

\* What Image.open makes of a file: unreadable, or mode, palette, size, bytes.
Unreadable == [ok |-> FALSE, mode |-> "", palette |-> <<>>,
               width |-> 0, height |-> 0, data |-> <<>>]

PinkPalette == <<255, 0, 255, 128, 0, 128>>
ThreePalette == <<0, 0, 0, 252, 84, 252, 168, 0, 168>>

IndexedFile(pal, w, h, data) ==
    [ok |-> TRUE, mode |-> "P", palette |-> pal,
     width |-> w, height |-> h, data |-> data]

RgbFile(w, h, data) ==
    [ok |-> TRUE, mode |-> "RGB", palette |-> <<>>,
     width |-> w, height |-> h, data |-> data]

\* Pixel bytes of the 6x3 two-colour strip, row-major.
StripData == <<0, 1, 0, 0, 1, 0,  1, 0, 0, 1, 0, 0,  1, 1, 0, 0, 1, 0>>
SmallData == <<2, 1>>
RgbData == << <<255, 0, 255>>, <<51, 102, 0>> >>

-----------------------------------------------------------------------------
(* PIL *)

\* pil_image.convert('P'): each RGB pixel goes to its entry of the browser
\* palette, entries 10.. holding the 6x6x6 cube with red varying fastest.
WebLevel(v) == (v + 25) \div 51
WebIndex(rgb) == 10 + 36 * WebLevel(rgb[3]) + 6 * WebLevel(rgb[2]) + WebLevel(rgb[1])
ConvertP(data) == [i \in 1 .. Len(data) |-> WebIndex(data[i])]

\* list[:n]
Prefix(s, n) == SubSeq(s, 1, Min(Len(s), n))

-----------------------------------------------------------------------------
(* QImage, Format_Indexed8 *)

\* QColor(r, g, b).rgb(), kept as the three channels
QRgb(r, g, b) == <<r, g, b>>

\* QImage.setPixel(x, y, index) is refused outside the image and for an index
\* outside the colour table.
SetPixelAccepted(width, height, colorCount, x, y, index) ==
    /\ 0 <= x /\ x < width /\ 0 <= y /\ y < height
    /\ 0 <= index /\ index < colorCount

SetPixel(img, x, y, index) ==
    IF SetPixelAccepted(img.width, img.height, img.colortable.size, x, y, index)
    THEN [img EXCEPT !.pix[<<x, y>>] = index]
    ELSE img

\* QImage.pixelIndex(x, y)
PixelIndex(img, x, y) == img.pix[<<x, y>>]

-----------------------------------------------------------------------------
(* PixelEditorCanvas.load_image *)

\* DetectCharHeight without the entry for the 9-pixel font
DetectCharHeightNoNine(height) ==
    IF height = 2048 THEN 8
    ELSE IF height = 3390 THEN 15
    ELSE IF height = 3584 THEN 14
    ELSE IF height \div 256 < 1 THEN 8
    ELSE height \div 256

\* DetectCharHeight without the fallback for a quotient below 1
DetectCharHeightNoFallback(height) ==
    IF height = 2048 THEN 8
    ELSE IF height = 2259 THEN 9
    ELSE IF height = 3390 THEN 15
    ELSE IF height = 3584 THEN 14
    ELSE height \div 256

\* Auto-detection of the character height from the bitmap height.
DetectCharHeight(height) ==
    IF height = 2048 THEN 8
    ELSE IF height = 2259 THEN 9
    ELSE IF height = 3390 THEN 15
    ELSE IF height = 3584 THEN 14
    ELSE IF height \div 256 < 1 THEN 8
    ELSE height \div 256

\* The palette held after load_image: captured only from a mode P image.
LoadedPalette(file, held) ==
    IF file.mode = "P" THEN file.palette ELSE held

\* Entries of the colour table after load_image
LoadedColorCount(pal) == IF pal # <<>> THEN 256 ELSE 0

\* The colour table set by the loop over range(256); left empty without a
\* palette.
LoadedColorTable(pal) ==
    IF pal # <<>>
    THEN LET palette == Prefix(pal, 768)
             At(k) == IF k < Len(palette) THEN palette[k + 1] ELSE 0
         IN  [size |-> LoadedColorCount(pal),
              head |-> [j \in 1 .. Min(LoadedColorCount(pal), (Len(palette) + 2) \div 3) |->
                  QRgb(At((j - 1) * 3), At((j - 1) * 3 + 1), At((j - 1) * 3 + 2))]]
    ELSE EmptyTable

\* pil_image.tobytes() after the conversion to mode P
PixelData(file) ==
    IF file.mode = "P" THEN file.data ELSE ConvertP(file.data)

\* Index into pixel_data of cell (x, y)
DataIndex(x, y, width) == y * width + x

\* The QImage built by load_image: garbage is the content of the freshly
\* allocated image, kept wherever setPixel is not called or refuses.
LoadedImage(file, pal, garbage) ==
    LET width == file.width
        height == file.height
        table == LoadedColorTable(pal)
        pixel_data == PixelData(file)
        fresh == [valid |-> TRUE, width |-> width, height |-> height,
                  colortable |-> table, pix |-> garbage]
        Byte(x, y) == pixel_data[DataIndex(x, y, width) + 1]
        \* setPixel(x, y, pixel_data[idx]) on the cell, where idx is in range
        Copied(c) ==
            IF /\ DataIndex(c[1], c[2], width) < Len(pixel_data)
               /\ SetPixelAccepted(width, height, LoadedColorCount(pal),
                                   c[1], c[2], Byte(c[1], c[2]))
            THEN Byte(c[1], c[2])
            ELSE garbage[c]
    IN  [fresh EXCEPT !.pix = [c \in Cells(width, height) |-> Copied(c)]]

\* Whether every setPixel of the copy loop is accepted, so that no byte of the
\* fresh image is left as allocated.
FullyCopied(file, pal) ==
    /\ file.width * file.height <= Len(PixelData(file))
    /\ \A c \in Cells(file.width, file.height) :
           SetPixelAccepted(file.width, file.height, LoadedColorCount(pal), c[1], c[2],
                            PixelData(file)[DataIndex(c[1], c[2], file.width) + 1])

\* Contents a fresh QImage of the file's size may have.  Where the copy loop
\* overwrites everything the content is immaterial and one is enough.
FreshContents(file, pal) ==
    IF FullyCopied(file, pal)
    THEN {[c \in Cells(file.width, file.height) |-> 0]}
    ELSE [Cells(file.width, file.height) -> Garbage]

-----------------------------------------------------------------------------
(* MonkeyIslandFontEditor *)

Thumbnail(path) == [filepath |-> path, index |-> FileIndex(path)]

\* Thumbnails added by one load_workspace: one per char*.bmp, sorted by name.
WorkspaceThumbnails == [i \in 1 .. Len(Paths) |-> Thumbnail(Paths[i])]

\* Whether the run may still take n events of a kind, and the budget after.
Allowed(kind, n) == budget[kind] = Unlimited \/ n <= budget[kind]
Spend(kind, n) ==
    IF budget[kind] = Unlimited THEN budget
    ELSE [budget EXCEPT ![kind] = @ - n]

NoEvent == [op |-> "init", px |-> 0, py |-> 0, button |-> "", path |-> ""]
Event(op, px, py, button, path) ==
    [op |-> op, px |-> px, py |-> py, button |-> button, path |-> path]

SelectLabel == [kind |-> "select", name |-> "", char_height |-> 0, num_chars |-> 0]

\* load_character without the except clause: the exception of a failed load
\* ends the application and its thumbnails are gone
load_character_uncaught(filepath, index) ==
    /\ UNCHANGED pointers
    /\ Allowed("load", 1)
    /\ budget' = Spend("load", 1)
    /\ current_file' = filepath
    /\ current_index' = index
    /\ event' = Event("load", 0, 0, "Left", filepath)
    /\ pixelChanged' = <<>>
    /\ IF disk[filepath].ok
       THEN LET file == disk[filepath]
                pal == LoadedPalette(file, original_palette)
            IN  /\ original_palette' = pal
                /\ char_height' = DetectCharHeight(file.height)
                /\ \E garbage \in FreshContents(file, pal) :
                       image' = LoadedImage(file, pal, garbage)
                \* height // char_height raises ZeroDivisionError inside the
                \* try block when the character height is zero
                /\ IF char_height' # 0
                   THEN /\ info_label' = [kind |-> "editing", name |-> filepath,
                                          char_height |-> char_height',
                                          num_chars |-> image'.height \div char_height']
                        /\ dialog' = ""
                   ELSE /\ dialog' = "Load Error"
                        /\ UNCHANGED info_label
                /\ loaded' = file
                /\ edited' = FALSE
                /\ UNCHANGED thumbnails
       ELSE /\ dialog' = "Load Error"
            /\ thumbnails' = <<>>
            /\ UNCHANGED <<image, original_palette, char_height, info_label,
                           loaded, edited>>
    /\ UNCHANGED <<zoom_level, current_color_index, drawing, hover_y, disk>>

\* load_character(filepath, index), the slot of a thumbnail's clicked signal
load_character(filepath, index) ==
    /\ UNCHANGED pointers
    /\ Allowed("load", 1)
    /\ budget' = Spend("load", 1)
    /\ current_file' = filepath
    /\ current_index' = index
    /\ event' = Event("load", 0, 0, "Left", filepath)
    /\ pixelChanged' = <<>>
    /\ IF disk[filepath].ok
       THEN LET file == disk[filepath]
                pal == LoadedPalette(file, original_palette)
            IN  /\ original_palette' = pal
                /\ char_height' = DetectCharHeight(file.height)
                /\ \E garbage \in FreshContents(file, pal) :
                       image' = LoadedImage(file, pal, garbage)
                \* height // char_height raises ZeroDivisionError inside the
                \* try block when the character height is zero
                /\ IF char_height' # 0
                   THEN /\ info_label' = [kind |-> "editing", name |-> filepath,
                                          char_height |-> char_height',
                                          num_chars |-> image'.height \div char_height']
                        /\ dialog' = ""
                   ELSE /\ dialog' = "Load Error"
                        /\ UNCHANGED info_label
                /\ loaded' = file
                /\ edited' = FALSE
       ELSE /\ dialog' = "Load Error"
            /\ UNCHANGED <<image, original_palette, char_height, info_label,
                           loaded, edited>>
    /\ UNCHANGED <<zoom_level, current_color_index, drawing, hover_y,
                   thumbnails, disk>>

ThumbnailClicked ==
    \E i \in 1 .. Len(thumbnails) :
        load_character(thumbnails[i].filepath, thumbnails[i].index)

-----------------------------------------------------------------------------
(* PixelEditorCanvas: painting *)

\* CellX rounding to the nearest cell
CellXRounded(px, zoom) == (px + zoom \div 2) \div zoom

\* pos.x() // zoom_level, pos.y() // zoom_level: floor division
CellX(px, zoom) == px \div zoom
CellY(py, zoom) == py \div zoom

\* InBounds without the lower limits
InBoundsAbove(img, x, y) ==
    /\ x < img.width
    /\ y < img.height

InBounds(img, x, y) ==
    /\ 0 <= x /\ x < img.width
    /\ 0 <= y /\ y < img.height

\* draw_pixel(pos): the image after it
DrawnImage(img, px, py, zoom, color) ==
    LET x == CellX(px, zoom)
        y == CellY(py, zoom)
    IN  IF ~img.valid THEN img
        ELSE IF InBounds(img, x, y) THEN SetPixel(img, x, y, color)
        ELSE img

\* draw_pixel(pos): the pixelChanged signals it emits
DrawnSignals(img, px, py, zoom, color) ==
    LET x == CellX(px, zoom)
        y == CellY(py, zoom)
    IN  IF img.valid /\ InBounds(img, x, y) THEN << <<x, y, color>> >>
        ELSE <<>>

draw_pixel(px, py) ==
    /\ image' = DrawnImage(image, px, py, zoom_level, current_color_index)
    /\ pixelChanged' = DrawnSignals(image, px, py, zoom_level, current_color_index)
    /\ Allowed("paint", Len(pixelChanged'))
    /\ budget' = Spend("paint", Len(pixelChanged'))
    /\ edited' = (edited \/ pixelChanged' # <<>>)

no_draw ==
    /\ pixelChanged' = <<>>
    /\ UNCHANGED <<image, budget, edited>>

\* Whether mousePressEvent starts a stroke
StartsStroke(button, img) == button = "Left" /\ img.valid

mousePressEvent(px, py, button) ==
    /\ UNCHANGED pointers
    /\ event' = Event("press", px, py, button, "")
    /\ dialog' = ""
    /\ IF StartsStroke(button, image)
       THEN /\ drawing' = TRUE
            /\ draw_pixel(px, py)
       ELSE /\ UNCHANGED drawing
            /\ no_draw
    /\ UNCHANGED <<original_palette, zoom_level, current_color_index,
                   char_height, hover_y, windowVars, disk, loaded>>

\* MovePaints with the drawing flag read the wrong way round
MovePaintsWhenIdle(img, isDrawing) == img.valid /\ ~isDrawing

\* Whether mouseMoveEvent paints
MovePaints(img, isDrawing) == img.valid /\ isDrawing

mouseMoveEvent(px, py) ==
    /\ UNCHANGED pointers
    /\ event' = Event("move", px, py, "", "")
    /\ dialog' = ""
    /\ IF image.valid
       THEN hover_y' = CellY(py, zoom_level)
       ELSE UNCHANGED hover_y
    /\ IF MovePaints(image, drawing)
       THEN draw_pixel(px, py)
       ELSE no_draw
    /\ UNCHANGED <<original_palette, zoom_level, current_color_index, drawing,
                   char_height, windowVars, disk, loaded>>

\* drawing after mouseReleaseEvent
Released(button, isDrawing) == IF button = "Left" THEN FALSE ELSE isDrawing

mouseReleaseEvent(button) ==
    /\ UNCHANGED pointers
    /\ event' = Event("release", 0, 0, button, "")
    /\ dialog' = ""
    /\ drawing' = Released(button, drawing)
    /\ no_draw
    /\ UNCHANGED <<original_palette, zoom_level, current_color_index,
                   char_height, hover_y, windowVars, disk, loaded>>

\* The position of a press matters to the handler for the left button only;
\* a release reads no position.
MousePress ==
    \/ \E pos \in pointers : mousePressEvent(pos[1], pos[2], "Left")
    \/ mousePressEvent(0, 0, "Right")
MouseMove ==
    \E pos \in pointers : mouseMoveEvent(pos[1], pos[2])
MouseRelease ==
    \E b \in Buttons : mouseReleaseEvent(b)

-----------------------------------------------------------------------------
(* Zoom and colour *)

\* PixelEditorCanvas.set_zoom(zoom_level): the level stored
set_zoom(level) == level

\* ClampedZoom without the upper limit
ClampedZoomBelow(zoom, delta) == Max(5, zoom + delta)

\* max(5, min(50, zoom_level + delta))
ClampedZoom(zoom, delta) == Max(5, Min(50, zoom + delta))

\* adjust_zoom where the click on the zoom button also ends the stroke
adjust_zoom_ending_stroke(delta) ==
    /\ UNCHANGED pointers
    /\ Allowed("zoom", 1)
    /\ budget' = Spend("zoom", 1)
    /\ zoom_level' = set_zoom(ClampedZoom(zoom_level, delta))
    /\ event' = Event("zoom", delta, 0, "Left", "")
    /\ dialog' = ""
    /\ pixelChanged' = <<>>
    /\ drawing' = FALSE
    /\ UNCHANGED <<image, original_palette, current_color_index,
                   char_height, hover_y, windowVars, disk, loaded, edited>>

adjust_zoom(delta) ==
    /\ UNCHANGED pointers
    /\ Allowed("zoom", 1)
    /\ budget' = Spend("zoom", 1)
    /\ zoom_level' = set_zoom(ClampedZoom(zoom_level, delta))
    /\ event' = Event("zoom", delta, 0, "Left", "")
    /\ dialog' = ""
    /\ pixelChanged' = <<>>
    /\ UNCHANGED <<image, original_palette, current_color_index, drawing,
                   char_height, hover_y, windowVars, disk, loaded, edited>>

ZoomOut == adjust_zoom(-5)
ZoomIn == adjust_zoom(5)

\* MonkeyIslandFontEditor.set_color -> PixelEditorCanvas.set_color
set_color(color_index) ==
    /\ UNCHANGED pointers
    /\ current_color_index' = color_index
    /\ event' = Event("color", color_index, 0, "Left", "")
    /\ dialog' = ""
    /\ pixelChanged' = <<>>
    /\ UNCHANGED <<image, original_palette, zoom_level, drawing, char_height,
                   hover_y, windowVars, disk, loaded, edited, budget>>

Color0Clicked == set_color(0)
Color1Clicked == set_color(1)

\* PixelEditorCanvas.set_char_height(height).  No handler of the window
\* calls it; SpecHeight takes it as a call made on the canvas from outside.
HeightValues == {0, 16}

set_char_height(height) ==
    /\ UNCHANGED pointers
    /\ Allowed("height", 1)
    /\ budget' = Spend("height", 1)
    /\ char_height' = height
    /\ event' = Event("height", height, 0, "", "")
    /\ dialog' = ""
    /\ pixelChanged' = <<>>
    /\ UNCHANGED <<image, original_palette, zoom_level, current_color_index,
                   drawing, hover_y, windowVars, disk, loaded, edited>>

SetCharHeight == \E h \in HeightValues : set_char_height(h)

-----------------------------------------------------------------------------
(* Saving *)

\* CanSave without the test of the palette
CanSaveWithoutPalette(img, pal) == img.valid

\* save_image returns False without an image or without a palette.
CanSave(img, pal) == img.valid /\ pal # <<>>

\* SavedPixels walking the columns instead of the rows
SavedPixelsByColumn(img) ==
    [i \in 1 .. img.width * img.height |->
        PixelIndex(img, (i - 1) \div img.height, (i - 1) % img.height)]

\* SavedPixels writing the rows of whole glyphs only
SavedPixelsWholeGlyphs(img) ==
    [i \in 1 .. img.width * img.height |->
        IF /\ char_height > 0
           /\ (i - 1) \div img.width < (img.height \div char_height) * char_height
        THEN PixelIndex(img, (i - 1) % img.width, (i - 1) \div img.width)
        ELSE 0]

\* The pixel list of save_image: rows top to bottom, each left to right.
SavedPixels(img) ==
    [i \in 1 .. img.width * img.height |->
        PixelIndex(img, (i - 1) % img.width, (i - 1) \div img.width)]

\* SavedPalette taken from the QImage's 256-entry colour table
SavedPaletteFromTable(img, pal) ==
    [n \in 1 .. 3 * img.colortable.size |->
        ColorAt(img.colortable, (n - 1) \div 3)[((n - 1) % 3) + 1]]

\* The palette save_image puts into the written file
SavedPalette(img, pal) == pal

\* The file save_image writes
SavedFile(img, pal) ==
    IndexedFile(SavedPalette(img, pal), img.width, img.height, SavedPixels(img))

\* save_current with a save_image that gives its palette away to the file
save_current_releasing ==
    /\ UNCHANGED pointers
    /\ event' = Event("save", 0, 0, "Left", current_file)
    /\ pixelChanged' = <<>>
    /\ IF current_file = ""
       THEN /\ dialog' = "No File"
            /\ UNCHANGED <<disk, thumbnails, budget, original_palette>>
       ELSE IF CanSave(image, original_palette)
       THEN /\ Allowed("save", 1)
            /\ budget' = Spend("save", 1)
            /\ disk' = [disk EXCEPT ![current_file] = SavedFile(image, original_palette)]
            /\ dialog' = "Saved"
            /\ thumbnails' = thumbnails \o WorkspaceThumbnails
            /\ original_palette' = <<>>
       ELSE /\ dialog' = "Save Error"
            /\ UNCHANGED <<disk, thumbnails, budget, original_palette>>
    /\ UNCHANGED <<image, zoom_level, current_color_index, drawing, char_height,
                   hover_y, current_file, current_index, info_label,
                   loaded, edited>>

save_current ==
    /\ UNCHANGED pointers
    /\ event' = Event("save", 0, 0, "Left", current_file)
    /\ pixelChanged' = <<>>
    /\ IF current_file = ""
       THEN /\ dialog' = "No File"
            /\ UNCHANGED <<disk, thumbnails, budget>>
       ELSE IF CanSave(image, original_palette)
       THEN /\ Allowed("save", 1)
            /\ budget' = Spend("save", 1)
            /\ disk' = [disk EXCEPT ![current_file] = SavedFile(image, original_palette)]
            /\ dialog' = "Saved"
            /\ thumbnails' = thumbnails \o WorkspaceThumbnails
       ELSE /\ dialog' = "Save Error"
            /\ UNCHANGED <<disk, thumbnails, budget>>
    /\ UNCHANGED <<canvasVars, current_file, current_index, info_label,
                   loaded, edited>>

-----------------------------------------------------------------------------

Workspace ==
    [p \in PathSet |->
        CASE p = "char0001.bmp" -> IndexedFile(PinkPalette, 6, 3, StripData)
          [] p = "char0002.bmp" -> IndexedFile(ThreePalette, 2, 1, SmallData)
          [] p = "char0003.bmp" -> RgbFile(2, 1, RgbData)
          [] p = "char0004.bmp" -> Unreadable]

\* The state after MonkeyIslandFontEditor.__init__
Constructed ==
    /\ image = NoImage
    /\ original_palette = <<>>
    /\ zoom_level = 20
    /\ current_color_index = 1
    /\ drawing = FALSE
    /\ char_height = 8
    /\ hover_y = -1
    /\ current_file = ""
    /\ current_index = -1
    /\ info_label = SelectLabel
    /\ thumbnails = WorkspaceThumbnails
    /\ pixelChanged = <<>>
    /\ dialog = ""
    /\ event = NoEvent
    /\ loaded = Unreadable
    /\ edited = FALSE

Budget(p, s, z, l) == [paint |-> p, save |-> s, zoom |-> z, load |-> l]

Init ==
    /\ Constructed
    /\ disk = Workspace
    /\ budget = Budget(MaxPaints, MaxSaves, MaxZooms, MaxLoads)
    /\ pointers = FewPointers

\* Strokes on one document
InitStroke ==
    /\ Constructed
    /\ disk = Workspace
    /\ budget = Budget(StrokePaints, 0, MaxZooms, 1)
    /\ pointers = Pointers

\* Pointer mapping at every zoom level
InitZoom ==
    /\ Constructed
    /\ disk = Workspace
    /\ budget = Budget(1, 0, Unlimited, 1)
    /\ pointers = Pointers

\* Repeated saves of one document
InitSave ==
    /\ Constructed
    /\ disk = Workspace
    /\ budget = Budget(1, RepeatSaves, MaxZooms, 1)
    /\ pointers = FewPointers

\* Bitmap heights of the font strips and of the fallback rule
StripHeights == {100, 255, 256, 300, 512, 2047, 2048, 2049, 2259, 2260, 2304,
                 3390, 3391, 3584, 3585}

\* A workspace whose first file is a one-pixel-wide strip of the given height
StripWorkspace(h) ==
    [p \in PathSet |->
        IF p = "char0001.bmp"
        THEN IndexedFile(PinkPalette, 1, h, [i \in 1 .. h |-> i % 2])
        ELSE Unreadable]

\* Strips of the heights the character height is inferred from
InitStrip ==
    /\ Constructed
    /\ disk \in {StripWorkspace(h) : h \in StripHeights}
    /\ budget = Budget(0, 0, MaxZooms, 1)
    /\ pointers = FewPointers

\* Documents and short strips, with the character height set from outside
InitHeight ==
    /\ Constructed
    /\ disk \in {Workspace, StripWorkspace(255), StripWorkspace(256)}
    /\ budget = [paint |-> 1, save |-> 1, zoom |-> MaxZooms, load |-> 2,
                 height |-> MaxHeights]
    /\ pointers = FewPointers

Next ==
    \/ ThumbnailClicked
    \/ MousePress
    \/ MouseMove
    \/ MouseRelease
    \/ ZoomOut
    \/ ZoomIn
    \/ Color0Clicked
    \/ Color1Clicked
    \/ save_current

Spec == Init /\ [][Next]_vars
SpecStroke == InitStroke /\ [][Next]_vars
SpecZoom == InitZoom /\ [][Next]_vars
SpecStrip == InitStrip /\ [][Next]_vars
SpecSave == InitSave /\ [][Next]_vars

NextHeight ==
    \/ Next
    \/ SetCharHeight

SpecHeight == InitHeight /\ [][NextHeight]_vars

-----------------------------------------------------------------------------
(* What the properties speak of *)

\* The last handler was a load_character whose load_image succeeded.
LoadSucceeded == event.op = "load" /\ dialog = ""

\* The last handler was a save_current that wrote the file.
SaveSucceeded == event.op = "save" /\ dialog = "Saved"

\* The file the last save wrote
Written == disk[event.path]

\* The 256-entry palette of an image converted by convert('P'): ten black
\* entries, the 6x6x6 cube, black to the end.
BrowserPalette ==
    [n \in 1 .. 768 |->
        LET i == (n - 1) \div 3
            ch == (n - 1) % 3
            k == i - 10
        IN  IF i < 10 \/ i >= 226 THEN 0
            ELSE IF ch = 0 THEN 51 * (k % 6)
            ELSE IF ch = 1 THEN 51 * ((k \div 6) % 6)
            ELSE 51 * (k \div 36)]

\* Palette and grid that decoding a file yields
DecodedPalette(file) == IF file.mode = "P" THEN file.palette ELSE BrowserPalette
DecodedGrid(file) ==
    [c \in Cells(file.width, file.height) |-> PixelData(file)[c[2] * file.width + c[1] + 1]]

\* The handler taken in a step painted: a left press, or a move of a stroke.
Painting(e, img, wasDrawing) ==
    /\ img.valid
    /\ \/ e.op = "press" /\ e.button = "Left"
       \/ e.op = "move" /\ wasDrawing

\* (x, y) is the cell under pointer position (px, py): integer division.
CellOf(px, py, zoom, x, y) ==
    /\ x * zoom <= px /\ px < (x + 1) * zoom
    /\ y * zoom <= py /\ py < (y + 1) * zoom

\* Number of colours of a flat r,g,b palette list
PaletteEntries(pal) == Len(pal) \div 3

Inside(img, x, y) == x \in 0 .. img.width - 1 /\ y \in 0 .. img.height - 1

-----------------------------------------------------------------------------
(* C1: round trip.  A save that follows the load of a palette-indexed file   *)
(* with no paint signal in between writes the palette, the size and the      *)
(* row-major pixel indices of the file that was loaded.                      *)
C1_RoundTrip ==
    (SaveSucceeded /\ loaded.ok /\ loaded.mode = "P" /\ ~edited)
        => /\ Written.palette = loaded.palette
           /\ Written.data = loaded.data
           /\ Written.width = loaded.width
           /\ Written.height = loaded.height

C1_Witness ==
    /\ SaveSucceeded /\ loaded.ok /\ loaded.mode = "P" /\ ~edited
    /\ loaded.width = 6 /\ loaded.height = 3
    /\ Written.data = StripData

(* C2: palette preservation.  From the load of a palette-indexed file on,    *)
(* through paints, colour selections and zoom changes, the held palette is   *)
(* the one captured at the load, and the palette a save writes is that one.  *)
C2_PalettePreserved ==
    (loaded.ok /\ loaded.mode = "P")
        => /\ original_palette = loaded.palette
           /\ SaveSucceeded => Written.palette = loaded.palette

C2_Witness ==
    /\ SaveSucceeded /\ loaded.ok /\ loaded.mode = "P"
    /\ edited /\ budget.paint = 0
    /\ current_color_index = 0
    /\ zoom_level # 20
    /\ Written.palette = PinkPalette
    /\ Written.data # loaded.data

(* C3: opening a file over an open document discards the document: after     *)
(* a successful load of B the held palette and grid are those decoded from   *)
(* B, and a save that follows writes B's palette and pixels.                 *)
C3_LoadReplacesDocument ==
    [][ /\ (image.valid /\ event'.op = "load" /\ dialog' = "")
            => /\ original_palette' = DecodedPalette(disk[event'.path])
               /\ image'.pix = DecodedGrid(disk[event'.path])
        /\ (LoadSucceeded /\ event'.op = "save" /\ dialog' = "Saved")
            => /\ disk'[event'.path].palette = DecodedPalette(loaded)
               /\ disk'[event'.path].data = PixelData(loaded) ]_vars

C5_OutOfBoundsIgnored ==
    [][ ( /\ Painting(event', image, drawing)
          /\ \A x \in 0 .. image.width - 1, y \in 0 .. image.height - 1 :
                 ~CellOf(event'.px, event'.py, zoom_level, x, y) )
        => /\ image' = image
           /\ pixelChanged' = <<>>
           /\ dialog' = "" ]_vars

C5_Witness ==
    /\ event.op = "press" /\ event.button = "Left" /\ image.valid /\ drawing
    /\ event.px < 0 /\ event.py < 0
    /\ pixelChanged = <<>>
    /\ ~edited

(* C6: single-cell write.  A paint that maps to a cell (x, y) of the image   *)
(* sets the cell to the current colour index c, changes no other cell and    *)
(* emits the one signal (x, y, c).                                           *)
C6_SingleCellWrite ==
    [][ \A x \in 0 .. image.width - 1, y \in 0 .. image.height - 1 :
          ( /\ Painting(event', image, drawing)
            /\ CellOf(event'.px, event'.py, zoom_level, x, y) )
          => /\ image'.pix[<<x, y>>] = current_color_index
             /\ \A c \in DOMAIN image.pix :
                    c # <<x, y>> => image'.pix[c] = image.pix[c]
             /\ pixelChanged' = << <<x, y, current_color_index>> >> ]_vars

(* C7: stroke lifecycle, with an image loaded.  A left press sets the        *)
(* stroke active and paints the pressed cell; a left release ends the        *)
(* stroke; a mouse event changes the grid only if it is a left press or a    *)
(* move of an active stroke; a move without a stroke changes no cell and     *)
(* emits no signal.                                                          *)
C7_StrokeLifecycle ==
    [][ image.valid =>
        /\ (event'.op = "press" /\ event'.button = "Left")
              => /\ drawing'
                 /\ \A x \in 0 .. image.width - 1, y \in 0 .. image.height - 1 :
                        CellOf(event'.px, event'.py, zoom_level, x, y)
                            => image'.pix[<<x, y>>] = current_color_index
        /\ (event'.op = "release" /\ event'.button = "Left") => ~drawing'
        /\ (event'.op \in {"press", "move", "release"} /\ image' # image)
              => Painting(event', image, drawing)
        /\ (event'.op = "move" /\ ~drawing)
              => image' = image /\ pixelChanged' = <<>> ]_vars

C9_CoordinateMapping ==
    (event.op \in {"press", "move"} /\ event.px >= 0 /\ event.py >= 0 /\ zoom_level >= 1)
        => /\ pixelChanged # <<>>
               => CellOf(event.px, event.py, zoom_level,
                         pixelChanged[1][1], pixelChanged[1][2])
           /\ ( /\ Painting(event, image, drawing)
                /\ \E x \in 0 .. image.width - 1, y \in 0 .. image.height - 1 :
                       CellOf(event.px, event.py, zoom_level, x, y) )
               => pixelChanged # <<>>
           /\ (pixelChanged # <<>> /\ event.px = 103 /\ event.py = 47 /\ zoom_level = 20)
               => pixelChanged[1][1] = 5 /\ pixelChanged[1][2] = 2

C9_Witness ==
    /\ event.op = "press" /\ event.px = 103 /\ event.py = 47
    /\ zoom_level = 20
    /\ pixelChanged = << <<5, 2, current_color_index>> >>
    /\ image.pix[<<5, 2>>] = current_color_index
    /\ loaded.data[2 * 6 + 5 + 1] # current_color_index

(* C10: zoom clamp.  After any sequence of zoom operations the zoom level    *)
(* is between 5 and 50 units per cell.                                       *)
C10_ZoomRange ==
    /\ zoom_level >= 5
    /\ zoom_level <= 50

C10_Witness ==
    /\ event.op = "zoom" /\ event.px = 5
    /\ zoom_level = 50
    /\ image.valid

(* C11: a save requested while no palette is held fails with a message to    *)
(* the user, writes no file, and leaves the grid, the palette and the        *)
(* current file as they were.                                                *)
C11_SaveWithoutPalette ==
    [][ (original_palette = <<>> /\ event'.op = "save")
        => /\ dialog' \in {"Save Error", "No File"}
           /\ disk' = disk
           /\ image' = image
           /\ original_palette' = original_palette
           /\ current_file' = current_file ]_vars

C11_Witness ==
    /\ event.op = "save" /\ dialog = "Save Error"
    /\ image.valid /\ original_palette = <<>>
    /\ current_file = "char0003.bmp"
    /\ disk = Workspace

(* C12: a save writes to the path the held palette and grid were decoded     *)
(* from; a failed load of another file does not redirect it.                 *)
C12_SaveInPlace ==
    [][ (event'.op = "save" /\ dialog' = "Saved")
        => /\ event'.path = info_label.name
           /\ \A p \in PathSet : p # info_label.name => disk'[p] = disk[p] ]_vars

(* C13: load_image is atomic: it completes, and the palette, the grid and    *)
(* the character height are those of the file, or it fails and all three     *)
(* are as before.                                                            *)
C13_AtomicLoad ==
    [][ event'.op = "load"
        => \/ /\ dialog' = ""
              /\ original_palette' = DecodedPalette(disk[event'.path])
              /\ image'.valid
              /\ image'.pix = DecodedGrid(disk[event'.path])
              /\ char_height' = DetectCharHeight(disk[event'.path].height)
           \/ /\ dialog' = "Load Error"
              /\ original_palette' = original_palette
              /\ image' = image
              /\ char_height' = char_height ]_vars

(* C14: save is idempotent.  A save changes neither the held grid nor the    *)
(* held palette, and a save that directly follows a save writes the same     *)
(* palette and the same pixel indices as the first.                          *)
C14_SaveIdempotent ==
    [][ /\ event'.op = "save"
            => image' = image /\ original_palette' = original_palette
        /\ (SaveSucceeded /\ event'.op = "save")
            => /\ dialog' = "Saved"
               /\ disk'[event'.path].palette = disk[event.path].palette
               /\ disk'[event'.path].data = disk[event.path].data
               /\ disk' = disk ]_vars

C14_Witness ==
    /\ SaveSucceeded
    /\ budget.save = 0
    /\ Len(thumbnails) = (RepeatSaves + 1) * Len(Paths)
    /\ edited
    /\ Written.data = SavedPixels(image)
    /\ Written.data # loaded.data

(* C15: grid validity.  In every state after a successful load, each cell    *)
(* of the grid is an index into the held palette: at least 0 and less than   *)
(* the number of palette entries.                                            *)
C15_GridValid ==
    (image.valid /\ loaded.ok)
        => \A c \in DOMAIN image.pix :
               /\ 0 <= image.pix[c]
               /\ image.pix[c] < PaletteEntries(original_palette)

(* C16: zoom is input mapping only.  A zoom click changes no grid cell, not  *)
(* the palette, not the stroke flag and not the current colour index.        *)
C16_ZoomFrame ==
    [][ event'.op = "zoom"
        => /\ image' = image
           /\ original_palette' = original_palette
           /\ drawing' = drawing
           /\ current_color_index' = current_color_index ]_vars

C16_Witness ==
    /\ event.op = "zoom" /\ event.px = 0 - 5
    /\ zoom_level = 5
    /\ drawing /\ image.valid /\ edited
    /\ current_color_index = 0

(* C20: after any number of successful saves the thumbnail panel holds       *)
(* exactly one thumbnail for each char*.bmp file of the workspace.           *)
C20_OneThumbnailPerFile ==
    \A p \in PathSet :
        Cardinality({i \in 1 .. Len(thumbnails) : thumbnails[i].filepath = p}) = 1

(* C17: the glyph height is advisory.  Setting the character height, to any  *)
(* value, and hover tracking change no grid cell and not the palette, and    *)
(* what a save writes is the held palette and the row-major grid, whatever   *)
(* the character height is.                                                  *)
C17_CharHeightAdvisory ==
    [][ /\ (event'.op = "height" \/ (event'.op = "move" /\ ~drawing))
            => image' = image /\ original_palette' = original_palette
        /\ (event'.op = "save" /\ dialog' = "Saved")
            => /\ disk'[event'.path].palette = original_palette
               /\ disk'[event'.path].width = image.width
               /\ disk'[event'.path].height = image.height
               /\ \A c \in DOMAIN image.pix :
                      disk'[event'.path].data[c[2] * image.width + c[1] + 1]
                          = image.pix[c] ]_vars

C17_Witness ==
    /\ SaveSucceeded
    /\ char_height = 16 /\ budget.height = 0
    /\ hover_y >= 0
    /\ edited
    /\ Written.palette = PinkPalette

(* C19: the character height is at least 1 right after every load_image      *)
(* that succeeds, whatever it was set to before, and the division that       *)
(* gives the number of characters does not fail.                             *)
C19_CharHeightPositive ==
    [][ (event'.op = "load" /\ disk[event'.path].ok)
        => /\ char_height' >= 1
           /\ dialog' = ""
           /\ info_label'.char_height = char_height' ]_vars

C19_Witness ==
    /\ LoadSucceeded
    /\ budget.height = 0 /\ budget.load = 0
    /\ image.height = 3
    /\ char_height = 8

(* C18: failure containment.  A load or save that fails is reported in one   *)
(* message box and changes no file, no grid, no palette and no thumbnail;    *)
(* in the state after the report the editor takes every event: mouse,        *)
(* colour, zoom, thumbnail click and save.                                   *)
C18_FailureContained ==
    [][ dialog' \in {"Load Error", "Save Error"}
        => /\ disk' = disk
           /\ image' = image
           /\ original_palette' = original_palette
           /\ thumbnails' = thumbnails
           /\ (ENABLED MousePress)'
           /\ (ENABLED MouseMove)'
           /\ (ENABLED MouseRelease)'
           /\ (ENABLED Color0Clicked)'
           /\ (budget'.zoom # 0 => (ENABLED ZoomIn)')
           /\ (budget'.load # 0 => (ENABLED ThumbnailClicked)')
           /\ (budget'.save # 0 => (ENABLED save_current)') ]_vars

C18_Witness ==
    /\ event.op = "save" /\ dialog = "Save Error"
    /\ current_file = "char0004.bmp"
    /\ ~image.valid
    /\ budget.load = 1
    /\ ENABLED ThumbnailClicked

====
